---- MODULE Spec2Model ----
(***************************************************************************)
(* Model of sched_talks.py: the one-shot batch job that resolves its        *)
(* settings, fetches the schedule export, downloads every talk's            *)
(* attachments, renders the talks as Markdown and writes README.md.         *)
(*                                                                          *)
(* Text is modelled as a sequence of one-character strings; the fixed       *)
(* pieces of the Markdown template are single tokens of such a sequence.    *)
(* Python values that may be None are wrapped: None, Str(s).                *)
(***************************************************************************)
EXTENDS Integers, Sequences, FiniteSets, TLC

VARIABLES argv, environ, remote, lt_file,
          pc, err, settings, json, talks, fs, out_open, second, first_talks

vars == <<argv, environ, remote, lt_file,
          pc, err, settings, json, talks, fs, out_open, second, first_talks>>

inputs == <<argv, environ, remote, lt_file>>

(***************************************************************************)
(* Bound of the model: the size of a schedule response, counted as its      *)
(* talks plus their speakers plus their attachment descriptors.             *)
(***************************************************************************)
MaxSize == 4

(***************************************************************************)
(* Python values                                                            *)
(***************************************************************************)
None == [py |-> "None"]

Str(s) == [py |-> "str", s |-> s]

Truthy(v) == v.py = "str" /\ v.s # <<>>

Range(f) == {f[i] : i \in DOMAIN f}

(***************************************************************************)
(* Characters                                                               *)
(***************************************************************************)
Upper == <<"A","B","C","D","E","F","G","H","I","J","K","L","M",
           "N","O","P","Q","R","S","T","U","V","W","X","Y","Z">>

Lower == <<"a","b","c","d","e","f","g","h","i","j","k","l","m",
           "n","o","p","q","r","s","t","u","v","w","x","y","z">>

Digits == {"0","1","2","3","4","5","6","7","8","9"}

UpperSet == Range(Upper)

\* the characters slugify keeps: [-a-zA-Z0-9]
AllowedSet == Range(Upper) \cup Range(Lower) \cup Digits \cup {"-"}

LowerOf == [c \in UpperSet |-> Lower[CHOOSE i \in DOMAIN Upper : Upper[i] = c]]

ToLower(c) == IF c \in UpperSet THEN LowerOf[c] ELSE c

Allowed(c) == c \in AllowedSet

(***************************************************************************)
(* slugify(text) of python-slugify with its defaults: lower-case the text,  *)
(* replace every run of characters outside [-a-zA-Z0-9] by "-", collapse    *)
(* runs of "-" and strip "-" from both ends.                                *)
(***************************************************************************)
RECURSIVE Dashed(_)
Dashed(s) ==
    IF s = <<>> THEN <<>>
    ELSE LET c == ToLower(Head(s))
             d == IF Allowed(c) THEN c ELSE "-"
             r == Dashed(Tail(s))
         IN IF d = "-" /\ r # <<>> /\ Head(r) = "-" THEN r ELSE <<d>> \o r

RECURSIVE StripDash(_)
StripDash(s) ==
    IF s = <<>> THEN <<>>
    ELSE IF Head(s) = "-" THEN StripDash(Tail(s))
    ELSE IF s[Len(s)] = "-" THEN StripDash(SubSeq(s, 1, Len(s) - 1))
    ELSE s

slugify(s) == StripDash(Dashed(s))

(***************************************************************************)
(* os.path (posixpath)                                                      *)
(***************************************************************************)
\* index of the last occurrence of c in s, 0 when there is none (rfind + 1)
RFind(s, c) == LET I == {i \in DOMAIN s : s[i] = c}
               IN IF I = {} THEN 0 ELSE CHOOSE i \in I : \A j \in I : j <= i

\* os.path.splitext: the extension starts at the last dot after the last
\* separator, unless only dots precede it in the file name
splitext(p) ==
    LET sepIndex == RFind(p, "/")
        dotIndex == RFind(p, ".")
    IN IF dotIndex > sepIndex
          /\ \E k \in (sepIndex + 1)..(dotIndex - 1) : p[k] # "."
       THEN <<SubSeq(p, 1, dotIndex - 1), SubSeq(p, dotIndex, Len(p))>>
       ELSE <<p, <<>> >>

\* os.path.join of two components
PathJoin(a, b) ==
    IF b # <<>> /\ Head(b) = "/" THEN b
    ELSE IF a = <<>> \/ a[Len(a)] = "/" THEN a \o b
    ELSE a \o <<"/">> \o b

(***************************************************************************)
(* The file system under the working directory: the directories that exist  *)
(* (the working directory itself is the empty path) and the files with      *)
(* their contents.  Paths are kept without trailing separators.             *)
(***************************************************************************)
EmptyFs == [dirs |-> {}, files |-> <<>>]

RECURSIVE Norm(_)
Norm(p) == IF p # <<>> /\ p[Len(p)] = "/" THEN Norm(SubSeq(p, 1, Len(p) - 1)) ELSE p

Dirname(p) == LET q == Norm(p) IN SubSeq(q, 1, RFind(q, "/") - 1)

IsDir(f, p) == Norm(p) = <<>> \/ Norm(p) \in f.dirs

IsFile(f, p) == Norm(p) \in DOMAIN f.files

NoError == [type |-> "none", msg |-> <<>>]

Error(t) == [type |-> t, msg |-> <<>>]

\* an exception that propagates out of the run, with the step it left
Raised(e, step) == IF e = NoError THEN NoError ELSE [type |-> e.type, msg |-> e.msg, at |-> step]

\* os.mkdir(dir)
OsMkdir(f, dir) ==
    IF dir = <<>> THEN [fs |-> f, err |-> Error("FileNotFoundError")]
    ELSE IF IsDir(f, dir) \/ IsFile(f, dir) THEN [fs |-> f, err |-> Error("FileExistsError")]
    ELSE IF IsFile(f, Dirname(dir)) THEN [fs |-> f, err |-> Error("NotADirectoryError")]
    ELSE IF ~IsDir(f, Dirname(dir)) THEN [fs |-> f, err |-> Error("FileNotFoundError")]
    ELSE [fs |-> [f EXCEPT !.dirs = @ \cup {Norm(dir)}], err |-> NoError]

\* _mkdir without its except clause
MkdirStrict(f, dir) == OsMkdir(f, dir)

\* _mkdir(dir): os.mkdir with FileExistsError swallowed
Mkdir(f, dir) ==
    LET r == OsMkdir(f, dir)
    IN IF r.err.type = "FileExistsError" THEN [fs |-> f, err |-> NoError] ELSE r

\* open(path, 'w' / 'wb') followed by writing `content` and closing
OpenWrite(f, path, content) ==
    IF path = <<>> THEN [fs |-> f, err |-> Error("FileNotFoundError")]
    ELSE IF path[Len(path)] # "/" /\ IsFile(f, Dirname(path))
         THEN [fs |-> f, err |-> Error("NotADirectoryError")]
    ELSE IF path[Len(path)] = "/" \/ IsDir(f, path) THEN [fs |-> f, err |-> Error("IsADirectoryError")]
    ELSE IF ~IsDir(f, Dirname(path)) THEN [fs |-> f, err |-> Error("FileNotFoundError")]
    ELSE [fs |-> [f EXCEPT !.files = (path :> content) @@ @], err |-> NoError]

(***************************************************************************)
(* Settings: command line (optparse), environment and defaults              *)
(***************************************************************************)
Str_files == <<"f","i","l","e","s">>

Str_README == <<"R","E","A","D","M","E",".","m","d">>

\* parser.parse_args(): -o has the default "files", -t has none
ParseArgs(a) ==
    [output_dir |-> IF "o" \in DOMAIN a THEN Str(a.o) ELSE Str(Str_files),
     api_key    |-> IF "t" \in DOMAIN a THEN Str(a.t) ELSE None]

\* vars(options) after "if not options.api_key: del options.api_key"
Kwargs(a) ==
    LET o == ParseArgs(a)
    IN IF Truthy(o.api_key) THEN o ELSE [k \in {"output_dir"} |-> o[k]]

\* os.environ.get(key, default)
EnvGet(e, key, default) == IF key \in DOMAIN e THEN Str(e[key]) ELSE default

\* the fallback chain with the two variables swapped
EnvApiKeySwapped(e) == EnvGet(e, "SCHED_KEY", EnvGet(e, "SCHED_API_KEY", None))

\* os.environ.get('SCHED_API_KEY', os.environ.get('SCHED_KEY'))
EnvApiKey(e) == EnvGet(e, "SCHED_API_KEY", EnvGet(e, "SCHED_KEY", None))

\* self.settings = {'output_dir': 'files', 'api_key': <env>, **kwargs}
MakeSettings(kwargs, e) ==
    kwargs @@ [output_dir |-> Str(Str_files), api_key |-> EnvApiKey(e)]

(***************************************************************************)
(* The schedule export: response, JSON body, talk records                   *)
(***************************************************************************)
\* a parser that accepts any body
JsonLoadsLenient(content) ==
    [ok |-> TRUE, value |-> IF content.fmt = "json" THEN content.value ELSE <<>>]

\* json.loads(content): the body is either a JSON document or other text
JsonLoads(content) ==
    IF content.fmt = "json" THEN [ok |-> TRUE, value |-> content.value]
    ELSE [ok |-> FALSE, value |-> <<>>]

RECURSIVE Escaped(_, _)
Escaped(b, quote) ==
    IF b = <<>> THEN <<>>
    ELSE LET c == Head(b)
             e == CASE c = "\\" -> <<"\\", "\\">>
                    [] c = "\n" -> <<"\\", "n">>
                    [] c = "\r" -> <<"\\", "r">>
                    [] c = "\t" -> <<"\\", "t">>
                    [] c = quote -> <<"\\", c>>
                    [] OTHER -> <<c>>
         IN e \o Escaped(Tail(b), quote)

\* str() of a bytes object, as an f-string interpolates response.content
BytesRepr(b) ==
    LET quote == IF "'" \in Range(b) /\ "\"" \notin Range(b) THEN "\"" ELSE "'"
    IN <<"b", quote>> \o Escaped(b, quote) \o <<quote>>

RetrieveMsg(content) ==
    <<"Sched Talks can't be correctly retrieved: '">> \o BytesRepr(content.raw)

\* dict.get(key, default)
Get(d, key, default) == IF key \in DOMAIN d THEN d[key] ELSE default

(***************************************************************************)
(* _download_attachments                                                    *)
(***************************************************************************)
\* the body served at a URL
Body(url) == <<"body of ">> \o url

\* a local path that slugifies the whole file name, extension included
LocalPathSlugAll(file_name, dir) == PathJoin(dir, slugify(file_name))

LocalPath(file_name, dir) ==
    LET parts == splitext(file_name)
    IN PathJoin(dir, slugify(parts[1]) \o parts[2])

\* what is left of a body whose stream broke off
Partial(url) == <<"partial body of ">> \o url

\* the network failures a download can meet
NetworkErrors == {"ConnectionError", "ChunkedEncodingError"}

\* one pass of the loop over attachments[i..]; failAt names the attachment
\* whose download fails (at = 0: none does), either in requests.get, before
\* the local file is opened, or in iter_content, after it was opened
RECURSIVE DownloadFrom(_, _, _, _, _, _)
DownloadFrom(attachments, dir, i, failAt, f, result) ==
    IF i > Len(attachments) THEN [result |-> result, fs |-> f, err |-> NoError]
    ELSE LET file_url == attachments[i].path
             file_name == attachments[i].name
             file_path_local == LocalPath(file_name, dir)
             w == OpenWrite(f, file_path_local, Body(file_url))
         IN IF i = failAt.at /\ ~failAt.stream
            THEN [result |-> result, fs |-> f, err |-> Error("ConnectionError")]
            ELSE IF w.err # NoError THEN [result |-> result, fs |-> f, err |-> w.err]
            ELSE IF i = failAt.at
            THEN [result |-> result, fs |-> OpenWrite(f, file_path_local, Partial(file_url)).fs,
                  err |-> Error("ChunkedEncodingError")]
            ELSE DownloadFrom(attachments, dir, i + 1, failAt, w.fs,
                              Append(result, [file_url  |-> file_url,
                                              file_path |-> file_path_local,
                                              file_name |-> file_name]))

DownloadAttachments(attachments, destination_path, output_dir, failAt, f) ==
    DownloadFrom(attachments,
                 IF destination_path # <<>> THEN destination_path ELSE output_dir,
                 1, failAt, f, <<>>)

(***************************************************************************)
(* One iteration of the loop of _get_talks over self.json                   *)
(***************************************************************************)
TalkPath(output_dir, talk) == PathJoin(output_dir, slugify(talk.name))

\* the branch taken for a talk that has files
ProcessFiles(talk, output_dir, failAt, f) ==
    LET attachments == Get(talk, "files", <<>>)
        talk_path == TalkPath(output_dir, talk)
        m == Mkdir(f, talk_path)
        d == DownloadAttachments(attachments, talk_path, output_dir, failAt, m.fs)
    IN IF m.err # NoError THEN [talk |-> talk, fs |-> f, err |-> m.err]
       ELSE [talk |-> IF d.err = NoError
                      THEN ("attachments" :> d.result) @@ talk
                      ELSE talk,
             fs |-> d.fs, err |-> d.err]

\* a loop body that resolves the attachments of every talk, also of one
\* without files
ProcessOneEager(talk, output_dir, failAt, f) ==
    ProcessFiles(talk, output_dir, failAt, f)

ProcessOne(talk, output_dir, failAt, f) ==
    IF Get(talk, "files", <<>>) = <<>>
    THEN [talk |-> talk, fs |-> f, err |-> NoError]
    ELSE ProcessFiles(talk, output_dir, failAt, f)

(***************************************************************************)
(* as_md: the Markdown document, a sequence of template tokens and          *)
(* characters                                                               *)
(***************************************************************************)
Str_None == <<"N","o","n","e">>

Str_Unknown == <<"U","n","k","n","o","w","n">>

\* f"{d.get(key)}" of a string field
Fmt(d, key) == IF key \in DOMAIN d THEN d[key] ELSE Str_None

\* [speaker.get('name', 'Unknown') for speaker in talk.get('speakers', [])]
SpeakerNames(talk) ==
    LET sp == Get(talk, "speakers", <<>>)
    IN [i \in DOMAIN sp |-> Get(sp[i], "name", Str(Str_Unknown))]

RECURSIVE Join(_, _)
Join(strs, sep) ==
    IF strs = <<>> THEN <<>>
    ELSE IF Len(strs) = 1 THEN strs[1]
    ELSE strs[1] \o sep \o Join(Tail(strs), sep)

\* str.replace(c, "") for the characters of `drop`
RECURSIVE Remove(_, _)
Remove(s, drop) ==
    IF s = <<>> THEN <<>>
    ELSE IF Head(s) \in drop THEN Remove(Tail(s), drop)
    ELSE <<Head(s)>> \o Remove(Tail(s), drop)

\* attachment entries that link to the remote URL
RECURSIVE AttachmentLinesRemote(_)
AttachmentLinesRemote(attachments) ==
    IF attachments = <<>> THEN <<>>
    ELSE <<"    - :paperclip: [">> \o Head(attachments).file_name \o <<"](">>
         \o Head(attachments).file_url \o <<")", "\n">>
         \o AttachmentLinesRemote(Tail(attachments))

RECURSIVE AttachmentLines(_)
AttachmentLines(attachments) ==
    IF attachments = <<>> THEN <<>>
    ELSE <<"    - :paperclip: [">> \o Head(attachments).file_name \o <<"](">>
         \o Head(attachments).file_path \o <<")", "\n">>
         \o AttachmentLines(Tail(attachments))

\* the body of the loop over self.talks for a talk that has speakers
TalkMd(talk) ==
    LET names == SpeakerNames(talk)
        speakers_formated == Join([i \in DOMAIN names |-> names[i].s], <<",", " ">>)
        description == Get(talk, "description", <<>>)
        attachments == Get(talk, "attachments", <<>>)
    IN <<"### ">> \o Fmt(talk, "name") \o <<"\n">>
       \o <<"  - :snake: _">> \o speakers_formated \o <<"_", "\n">>
       \o <<"  - :alarm_clock:  ">> \o Fmt(talk, "event_start") \o <<"\n">>
       \o (IF description # <<>>
           THEN <<"  - :clipboard:  ">> \o Remove(description, {"\n", "\r"}) \o <<"\n">>
           ELSE <<>>)
       \o (IF attachments # <<>>
           THEN <<"  - :open_file_folder: Attachments", "\n">> \o AttachmentLines(attachments)
           ELSE <<>>)
       \o <<"  - :link: [More info](https://pycones19.sched.com/event/">>
       \o Fmt(talk, "id") \o <<")">>
       \o <<"\n">>

\* a renderer that skips no talk
RenderedAlways(talk) == TRUE

\* a talk is rendered when it has a speaker
Rendered(talk) == SpeakerNames(talk) # <<>>

\* ", ".join(speakers) raises TypeError on a speaker whose name is null
JoinFails(talk) == \E i \in DOMAIN SpeakerNames(talk) : SpeakerNames(talk)[i] = None

RECURSIVE TalksMd(_)
TalksMd(ts) ==
    IF ts = <<>> THEN <<>>
    ELSE (IF Rendered(Head(ts)) THEN TalkMd(Head(ts)) ELSE <<>>) \o TalksMd(Tail(ts))

\* _get_lighting_talks_content: the fragment, '' when it cannot be read
LightningTalks(lt) == IF lt.present THEN lt.content ELSE <<>>

AsMd(ts, lt, now) ==
    IF \E i \in DOMAIN ts : Rendered(ts[i]) /\ JoinFails(ts[i])
    THEN [err |-> Error("TypeError"), md |-> <<>>]
    ELSE [err |-> NoError,
          md  |-> <<"# PyConES 2019 Conferences and their related stuff", "\n">>
                  \o <<"It contains all available talks, their attachments and other interesting information.", "\n">>
                  \o <<"## Talks", "\n">>
                  \o TalksMd(ts)
                  \o (IF LightningTalks(lt) # <<>> THEN <<"\n">> \o LightningTalks(lt) ELSE <<>>)
                  \o <<"\n", "_Automatically created with :hearts: at ">> \o now \o <<"_">>]

(***************************************************************************)
(* The inputs of a run                                                      *)
(***************************************************************************)
\* attachment descriptors of the API: two whose names slugify to the same
\* local name, and one without extension
Descriptors ==
    { [path |-> <<"u1">>, name |-> <<"a"," ","b",".","p","d","f">>],
      [path |-> <<"u2">>, name |-> <<"A","-","B",".","p","d","f">>],
      [path |-> <<"u3">>, name |-> <<"I","n","t","r","o">>] }

\* a descriptor whose name slugifies to nothing
BadDescriptor == [path |-> <<"u4">>, name |-> <<"?">>]

Ana == [name |-> Str(<<"A","n","a">>)]

Bo == [name |-> Str(<<"B","o">>)]

NullName == [name |-> None]

NoName == <<>>

Speakers == {Ana, Bo, NullName}

\* the fields of a talk other than speakers and files; a sparse entry omits
\* the keys of its empty lists
Profiles ==
    { [sparse |-> FALSE,
       base |-> [id |-> <<"1">>, name |-> <<"I","n","t","r","o">>, event_start |-> <<"t1">>,
                 description |-> <<"l","1","\n","l","2","\r","\n">>]],
      [sparse |-> TRUE,
       base |-> [id |-> <<"2">>, name |-> <<"i","n","t","r","o","!">>, event_start |-> <<"t2">>]],
      [sparse |-> FALSE,
       base |-> [id |-> <<"3">>, name |-> <<"?","!">>, event_start |-> <<"t3">>,
                 description |-> <<>>]] }

Talk(p, speakers, files) ==
    (IF speakers = <<>> /\ p.sparse THEN <<>> ELSE [speakers |-> speakers])
    @@ (IF files = <<>> /\ p.sparse THEN <<>> ELSE [files |-> files])
    @@ p.base

\* the talks of size w: one for the talk, one per speaker, one per file
TalksOfSize(w) ==
    UNION { { Talk(p, sp, fl) : p \in Profiles,
                                sp \in [1..(w - 1 - i) -> Speakers],
                                fl \in [1..i -> Descriptors] } : i \in 0..(w - 1) }

RECURSIVE TalkLists(_)
TalkLists(n) ==
    IF n = 0 THEN {<<>>}
    ELSE UNION { { <<t>> \o r : t \in TalksOfSize(w), r \in TalkLists(n - w) } : w \in 1..n }

Schedules == UNION { TalkLists(n) : n \in 0..MaxSize }

Http(ok, content) == [kind |-> "http", ok |-> ok, content |-> content]

JsonBody(value) == [fmt |-> "json", value |-> value]

TextBody(raw) == [fmt |-> "text", raw |-> raw]

P1 == CHOOSE p \in Profiles : p.base.id = <<"1">>

P2 == CHOOSE p \in Profiles : p.base.id = <<"2">>

\* a talk and a break; a talk whose attachment cannot be written; a talk
\* whose speaker has no name
FixedSchedules ==
    { <<Talk(P1, <<Ana, Bo>>, <<>>), Talk(P2, <<>>, <<>>)>>,
      <<Talk(P1, <<Ana>>, <<BadDescriptor>>)>>,
      <<Talk(P2, <<NoName, Bo>>, <<>>)>> }

TextBodies ==
    { <<"E","R","R">>,
      <<"<","p",">","\n","n","o","\\","'">>,
      <<"i","t","'","s">> }

FixedResponses ==
    { [kind |-> "conn_error"], Http(FALSE, TextBody(<<"E","R","R">>)) }
    \cup { Http(TRUE, TextBody(b)) : b \in TextBodies }
    \cup { Http(TRUE, JsonBody(v)) : v \in FixedSchedules }

OptionValues == { <<>>, <<"o","u","t">> }

Argvs ==
    { o @@ t : o \in {<<>>} \cup { [o |-> v] : v \in OptionValues },
               t \in {<<>>} \cup { [t |-> <<"k","f">>], [t |-> <<>>] } }

Environs ==
    { a @@ b : a \in {<<>>} \cup { [SCHED_API_KEY |-> v] : v \in {<<>>, <<"k","1">>} },
               b \in {<<>>} \cup { [SCHED_KEY |-> v] : v \in {<<>>, <<"k","2">>} } }

Fragments == { [present |-> FALSE], [present |-> TRUE, content |-> <<"## Lightning talks">>] }

\* the local time at which a run renders
Clock(again) == IF again THEN { <<"2019/10/06 12:05">> } ELSE { <<"2019/10/06 12:00">> }

(***************************************************************************)
(* The run                                                                  *)
(***************************************************************************)
Unset == [set |-> FALSE]

Init ==
    /\ \/ /\ argv = <<>>
          /\ environ = [SCHED_API_KEY |-> <<"k","1">>]
          /\ lt_file = [present |-> FALSE]
          /\ remote \in { Http(TRUE, JsonBody(v)) : v \in Schedules }
       \/ /\ argv \in Argvs
          /\ environ \in Environs
          /\ lt_file \in Fragments
          /\ remote \in FixedResponses
    /\ pc = "start"
    /\ err = NoError
    /\ settings = <<>>
    /\ json = Unset
    /\ talks = <<>>
    /\ fs = EmptyFs
    /\ out_open = FALSE
    /\ second = FALSE
    /\ first_talks = <<>>

OutputDir == settings.output_dir.s

\* SchedTalks.__init__ up to the call of _get_talks
Construct ==
    /\ pc = "start"
    /\ LET st == MakeSettings(Kwargs(argv), environ)
           m == Mkdir(fs, st.output_dir.s)
       IN /\ settings' = st
          /\ talks' = <<>>
          /\ fs' = m.fs
          /\ err' = Raised(m.err, "init")
          /\ pc' = IF m.err = NoError THEN "fetch" ELSE "failed"
    /\ UNCHANGED <<inputs, json, out_open, second, first_talks>>

\* _get_talks up to the loop: requests.get, json.loads, and the read of
\* self.json that opens the loop
Fetch ==
    /\ pc = "fetch"
    /\ IF remote.kind = "conn_error"
       THEN /\ pc' = "failed"
            /\ err' = Raised(Error("ConnectionError"), "fetch")
            /\ json' = json
       ELSE LET parsed == JsonLoads(remote.content)
            IN IF remote.ok /\ ~parsed.ok
               THEN /\ pc' = "failed"
                    /\ err' = Raised([type |-> "Exception", msg |-> RetrieveMsg(remote.content)], "fetch")
                    /\ json' = json
               ELSE /\ json' = IF remote.ok THEN [set |-> TRUE, value |-> parsed.value] ELSE json
                    /\ pc' = IF json'.set THEN "process" ELSE "failed"
                    /\ err' = IF json'.set THEN NoError ELSE Raised(Error("AttributeError"), "fetch")
    /\ UNCHANGED <<inputs, settings, talks, fs, out_open, second, first_talks>>

\* one iteration of the loop over self.json; the talk record is shared by
\* self.json and self.talks
ProcessTalk ==
    /\ pc = "process"
    /\ Len(talks) < Len(json.value)
    /\ LET i == Len(talks) + 1
           talk == json.value[i]
       IN \E at \in 0..Len(Get(talk, "files", <<>>)), stream \in BOOLEAN :
            LET r == ProcessOne(talk, OutputDir, [at |-> at, stream |-> stream], fs)
            IN /\ at = 0 => ~stream
               /\ fs' = r.fs
               /\ err' = Raised(r.err, "download")
               /\ json' = [json EXCEPT !.value[i] = r.talk]
               /\ talks' = IF r.err = NoError THEN Append(talks, r.talk) ELSE talks
               /\ pc' = IF r.err = NoError THEN "process" ELSE "failed"
    /\ UNCHANGED <<inputs, settings, out_open, second, first_talks>>

\* export_md: open(file_name, "w") once the constructor has returned
ExportOpen ==
    /\ pc = "process"
    /\ Len(talks) = Len(json.value)
    /\ LET w == OpenWrite(fs, Str_README, <<>>)
       IN /\ fs' = w.fs
          /\ err' = Raised(w.err, "export")
          /\ out_open' = (w.err = NoError)
          /\ pc' = IF w.err = NoError THEN "render" ELSE "failed"
    /\ UNCHANGED <<inputs, settings, json, talks, second, first_talks>>

\* export_md: readme.write(self.as_md) and the end of the with block
ExportWrite ==
    /\ pc = "render"
    /\ \E now \in Clock(second) :
         LET r == AsMd(talks, lt_file, now)
         IN /\ err' = Raised(r.err, "render")
            /\ fs' = IF r.err = NoError THEN OpenWrite(fs, Str_README, r.md).fs ELSE fs
            /\ pc' = IF r.err = NoError THEN "done" ELSE "failed"
    /\ UNCHANGED <<inputs, settings, json, talks, out_open, second, first_talks>>

\* the program is run again with the same inputs in the same directory
Rerun ==
    /\ pc = "done"
    /\ ~second
    /\ second' = TRUE
    /\ first_talks' = talks
    /\ pc' = "start"
    /\ err' = NoError
    /\ settings' = <<>>
    /\ json' = Unset
    /\ talks' = <<>>
    /\ out_open' = FALSE
    /\ UNCHANGED <<inputs, fs>>

Next == Construct \/ Fetch \/ ProcessTalk \/ ExportOpen \/ ExportWrite \/ Rerun

Spec == Init /\ [][Next]_vars

(***************************************************************************)
(* Vocabulary of the properties                                             *)
(***************************************************************************)
Fetched == remote.content.value

Readme == fs.files[Str_README]

RECURSIVE SplitOn(_, _, _)
SplitOn(s, c, cur) ==
    IF s = <<>> THEN <<cur>>
    ELSE IF Head(s) = c THEN <<cur>> \o SplitOn(Tail(s), c, <<>>)
    ELSE SplitOn(Tail(s), c, Append(cur, Head(s)))

\* the lines of a document: the stretches between its newline characters
Lines(doc) ==
    LET starts == {p \in 1..(Len(doc) + 1) : p = 1 \/ doc[p - 1] = "\n"}
        nth(n) == CHOOSE p \in starts : Cardinality({q \in starts : q <= p}) = n
        stop(p) == IF \E q \in p..Len(doc) : doc[q] = "\n"
                   THEN CHOOSE q \in p..Len(doc) :
                           doc[q] = "\n" /\ \A r \in p..(q - 1) : doc[r] # "\n"
                   ELSE Len(doc) + 1
    IN [n \in 1..Cardinality(starts) |-> SubSeq(doc, nth(n), stop(nth(n)) - 1)]

StartsWith(line, token) == line # <<>> /\ line[1] = token

Contains(hay, needle) ==
    \E i \in 0..(Len(hay) - Len(needle)) : SubSeq(hay, i + 1, i + Len(needle)) = needle

\* the path components of a path, empty ones dropped
Components(p) == SelectSeq(SplitOn(p, "/", <<>>), LAMBDA c : c # <<>>)

HasSpeakers(t) == Get(t, "speakers", <<>>) # <<>>

HasFiles(t) == Get(t, "files", <<>>) # <<>>

\* the name a speaker entry is listed under
ListedName(sp) == IF "name" \in DOMAIN sp THEN sp.name.s ELSE Str_Unknown

RECURSIVE CommaSeparated(_, _)
CommaSeparated(sp, n) ==
    IF n = 0 THEN <<>>
    ELSE IF n = 1 THEN ListedName(sp[1])
    ELSE CommaSeparated(sp, n - 1) \o <<",", " ">> \o ListedName(sp[n])

\* the bytes a Python bytes literal b'...' denotes
RECURSIVE Unescaped(_)
Unescaped(s) ==
    IF s = <<>> THEN <<>>
    ELSE IF Head(s) = "\\" /\ Len(s) >= 2
         THEN <<CASE s[2] = "n" -> "\n" [] s[2] = "r" -> "\r" [] s[2] = "t" -> "\t"
                  [] OTHER -> s[2]>> \o Unescaped(SubSeq(s, 3, Len(s)))
    ELSE <<Head(s)>> \o Unescaped(Tail(s))

LiteralValue(lit) ==
    IF Len(lit) >= 3 /\ lit[1] = "b" /\ lit[2] \in {"'", "\""} /\ lit[Len(lit)] = lit[2]
    THEN Unescaped(SubSeq(lit, 3, Len(lit) - 1))
    ELSE <<"not a bytes literal">>

\* no character of the body is escaped by repr
PlainBody(b) ==
    /\ Range(b) \cap {"\\", "\n", "\r", "\t"} = {}
    /\ ~({"'", "\""} \subseteq Range(b))

FalsyResponse == remote.kind = "http" /\ ~remote.ok

BadJsonResponse == remote.kind = "http" /\ remote.ok /\ remote.content.fmt = "text"

PastFetch == pc \in {"process", "render", "done"} \/ (pc = "failed" /\ err.at # "init")

\* the lines of the j-th talk section: from its heading to the next heading
SectionLines(lines, j) ==
    LET H == {i \in DOMAIN lines : StartsWith(lines[i], "### ")}
        nth(n) == CHOOSE i \in H : Cardinality({k \in H : k <= i}) = n
        last == IF j < Cardinality(H) THEN nth(j + 1) - 1 ELSE Len(lines)
    IN SubSeq(lines, nth(j), last)

\* a path component, none when it is empty
OneComponent(c) == IF c = <<>> THEN <<>> ELSE <<c>>

PathInTalkDir(talk, rec) ==
    LET parts == splitext(rec.file_name)
    IN /\ slugify(parts[1]) \o parts[2] # <<>>
       /\ Components(rec.file_path) =
              Components(OutputDir) \o OneComponent(slugify(talk.name))
              \o <<slugify(parts[1]) \o parts[2]>>

\* the source holds a non-empty value under the key
Supplies(src, key) == key \in DOMAIN src /\ src[key] # <<>>

(***************************************************************************)
(* C1.  On a falsy response of the schedule fetch, _get_talks raises no     *)
(* error and the run goes on with no talks.                                 *)
(***************************************************************************)
C1_FalsyFetchYieldsNoTalks ==
    (FalsyResponse /\ PastFetch) => (pc # "failed" /\ err = NoError /\ talks = <<>>)

(***************************************************************************)
(* C2.  In a run that fails (in the fetch, a download or the rendering)     *)
(* the output file README.md has not been opened.                           *)
(***************************************************************************)
C2_FailedRunLeavesOutputUntouched == pc = "failed" => ~out_open

(***************************************************************************)
(* C3 as stated.  On a truthy response that is not JSON the run has failed  *)
(* with an Exception whose message contains the raw body, and nothing was   *)
(* processed, downloaded or exported.                                       *)
(***************************************************************************)
C3_MessageHoldsRawBody ==
    (BadJsonResponse /\ PastFetch) =>
        /\ pc = "failed" /\ err.type = "Exception"
        /\ Contains(err.msg, remote.content.raw)
        /\ talks = <<>> /\ DOMAIN fs.files = {} /\ ~out_open

(***************************************************************************)
(* C3 as amended.  On a truthy response that is not JSON the run has failed *)
(* with an Exception whose message ends with the Python bytes literal of    *)
(* the body (the body itself when repr escapes none of its characters); no  *)
(* talk was processed, no file written, the output not opened, and the run  *)
(* takes no further step.                                                   *)
(***************************************************************************)
C3_BadJsonAborts ==
    (BadJsonResponse /\ PastFetch) =>
        /\ pc = "failed" /\ err.type = "Exception"
        /\ LiteralValue(Tail(err.msg)) = remote.content.raw
        /\ PlainBody(remote.content.raw) => Contains(err.msg, remote.content.raw)
        /\ talks = <<>> /\ DOMAIN fs.files = {} /\ ~out_open
        /\ ~ENABLED Next

C3_Witness ==
    /\ BadJsonResponse /\ pc = "failed"
    /\ ~PlainBody(remote.content.raw)

(***************************************************************************)
(* C4.  The talk sections of the written document are exactly the talks     *)
(* that have a speaker, once each and in input order, each headed by its    *)
(* name and listing its speakers comma-separated in order; every fetched    *)
(* talk, with or without speakers, is kept in talks.                        *)
(***************************************************************************)
C4_SectionsAreTalksWithSpeakers ==
    pc = "done" =>
        LET lines == Lines(Readme)
            heads == SelectSeq(lines, LAMBDA l : StartsWith(l, "### "))
            lists == SelectSeq(lines, LAMBDA l : StartsWith(l, "  - :snake: _"))
            links == SelectSeq(lines, LAMBDA l :
                         StartsWith(l, "  - :link: [More info](https://pycones19.sched.com/event/"))
            shown == SelectSeq(talks, HasSpeakers)
        IN /\ Len(heads) = Len(shown) /\ Len(lists) = Len(shown) /\ Len(links) = Len(shown)
           /\ \A i \in DOMAIN shown :
                /\ heads[i] = <<"### ">> \o shown[i].name
                /\ lists[i] = <<"  - :snake: _">>
                              \o CommaSeparated(shown[i].speakers, Len(shown[i].speakers))
                              \o <<"_">>
                /\ links[i] = <<"  - :link: [More info](https://pycones19.sched.com/event/">>
                              \o shown[i].id \o <<")">>
           /\ Len(talks) = Len(Fetched)
           /\ \A i \in DOMAIN talks : talks[i].name = Fetched[i].name /\ talks[i].id = Fetched[i].id

C4_Witness ==
    /\ pc = "done"
    /\ \E i, j \in DOMAIN talks :
         /\ i < j
         /\ ~HasSpeakers(talks[i])
         /\ HasSpeakers(talks[j]) /\ Len(talks[j].speakers) = 2
         /\ talks[j].speakers[1] # talks[j].speakers[2]

(***************************************************************************)
(* C5.  A processed talk with N attachment descriptors has N resolved       *)
(* records, the k-th for the k-th descriptor; the section of a rendered     *)
(* talk holds N attachment entries in that order, each showing the original *)
(* file name and linking to the record's local file_path, not to its        *)
(* file_url.                                                                *)
(***************************************************************************)
C5_AttachmentsRoundTrip ==
    /\ \A i \in DOMAIN talks :
         LET files == Get(Fetched[i], "files", <<>>)
             recs == Get(talks[i], "attachments", <<>>)
         IN /\ Len(recs) = Len(files)
            /\ \A k \in DOMAIN files :
                 /\ recs[k].file_url = files[k].path
                 /\ recs[k].file_name = files[k].name
                 /\ recs[k].file_path # files[k].path
    /\ pc = "done" =>
         LET lines == Lines(Readme)
             shown == SelectSeq([i \in DOMAIN talks |-> i], LAMBDA i : HasSpeakers(talks[i]))
         IN \A j \in DOMAIN shown :
              LET files == Get(Fetched[shown[j]], "files", <<>>)
                  recs == Get(talks[shown[j]], "attachments", <<>>)
                  clips == SelectSeq(SectionLines(lines, j),
                                     LAMBDA l : StartsWith(l, "    - :paperclip: ["))
              IN /\ Len(clips) = Len(files)
                 /\ \A k \in DOMAIN files :
                      clips[k] = <<"    - :paperclip: [">> \o files[k].name \o <<"](">>
                                 \o recs[k].file_path \o <<")">>

C5_Witness ==
    /\ pc = "done"
    /\ \E i \in DOMAIN talks :
         /\ HasSpeakers(talks[i])
         /\ Len(Get(Fetched[i], "files", <<>>)) = 2
         /\ Fetched[i].files[1] # Fetched[i].files[2]

(***************************************************************************)
(* C6.  In every state, every resolved attachment record of every talk has  *)
(* a file_path made of the components of output_dir, then the slug of the   *)
(* talk's name, then the slug of the file's base name followed by its       *)
(* original extension.                                                      *)
(***************************************************************************)
C6_PathsUnderTalkDir ==
    /\ \A i \in DOMAIN talks :
         \A k \in DOMAIN Get(talks[i], "attachments", <<>>) :
            PathInTalkDir(talks[i], talks[i].attachments[k])
    /\ json.set =>
         \A i \in DOMAIN json.value :
            \A k \in DOMAIN Get(json.value[i], "attachments", <<>>) :
               PathInTalkDir(json.value[i], json.value[i].attachments[k])

C6_Witness ==
    \E i \in DOMAIN talks :
       \E k \in DOMAIN Get(talks[i], "attachments", <<>>) :
          /\ talks[i].attachments[k].file_name = <<"a"," ","b",".","p","d","f">>
          /\ talks[i].name = <<"i","n","t","r","o","!">>
          /\ talks[i].attachments[k].file_path # PathJoin(OutputDir, talks[i].attachments[k].file_name)

(***************************************************************************)
(* C7 as stated.  The api_key is that of the first of: command-line flag,   *)
(* SCHED_API_KEY, SCHED_KEY, that supplies a key, a source that is unset or *)
(* empty supplying none; it is absent when none does.                       *)
(***************************************************************************)
C7_PrecedenceSkipsEmpty ==
    pc # "start" =>
        settings.api_key =
            IF Supplies(argv, "t") THEN Str(argv.t)
            ELSE IF Supplies(environ, "SCHED_API_KEY") THEN Str(environ.SCHED_API_KEY)
            ELSE IF Supplies(environ, "SCHED_KEY") THEN Str(environ.SCHED_KEY)
            ELSE None

(***************************************************************************)
(* C7 as amended.  The api_key is the command-line flag when it is given    *)
(* and not empty; otherwise SCHED_API_KEY when that variable is set, even   *)
(* to the empty string; otherwise SCHED_KEY when set; otherwise absent.     *)
(* output_dir is the flag's value when given and "files" otherwise.  The    *)
(* settings hold these values in every state after construction.            *)
(***************************************************************************)
C7_SettingsPrecedence ==
    pc # "start" =>
        /\ DOMAIN settings = {"output_dir", "api_key"}
        /\ settings.api_key =
              IF Supplies(argv, "t") THEN Str(argv.t)
              ELSE IF "SCHED_API_KEY" \in DOMAIN environ THEN Str(environ.SCHED_API_KEY)
              ELSE IF "SCHED_KEY" \in DOMAIN environ THEN Str(environ.SCHED_KEY)
              ELSE None
        /\ settings.output_dir = IF "o" \in DOMAIN argv THEN Str(argv.o) ELSE Str(Str_files)

C7_Witness ==
    /\ pc = "done"
    /\ "t" \in DOMAIN argv /\ argv.t = <<>>
    /\ "SCHED_API_KEY" \in DOMAIN environ /\ environ.SCHED_API_KEY = <<>>
    /\ Supplies(environ, "SCHED_KEY")
    /\ settings.api_key = Str(<<>>)

(***************************************************************************)
(* C8.  A second run in the same directory with the same inputs meets no    *)
(* file-system error (it can fail only where the network does) and resolves *)
(* the same attachment records, with the same file paths, as the first.     *)
(***************************************************************************)
C8_SecondRunSame ==
    second =>
        /\ pc = "failed" => err.type \in NetworkErrors
        /\ Len(talks) <= Len(first_talks)
        /\ \A i \in DOMAIN talks : talks[i] = first_talks[i]
        /\ pc \in {"render", "done"} => talks = first_talks
        /\ \A i \in DOMAIN talks :
             \A k \in DOMAIN Get(talks[i], "attachments", <<>>) :
                IsFile(fs, talks[i].attachments[k].file_path)

C8_Witness ==
    /\ second /\ pc = "done"
    /\ Cardinality({TalkPath(OutputDir, talks[i]) : i \in {j \in DOMAIN talks : HasFiles(talks[j])}}) = 2

\* the attachments key of the processed talks
C9_KeyIffFiles ==
    \A i \in DOMAIN talks :
       /\ "attachments" \in DOMAIN talks[i] <=> HasFiles(Fetched[i])
       /\ ~HasFiles(Fetched[i]) => talks[i] = Fetched[i]

\* the step that processes a talk without files
C9_StepLeavesDisk ==
    (Len(talks') = Len(talks) + 1 /\ ~HasFiles(Fetched[Len(talks')])) =>
        (fs' = fs /\ talks'[Len(talks')] = Fetched[Len(talks')])

(***************************************************************************)
(* C9.  A talk whose files list is empty or absent is left as fetched: it   *)
(* gets no attachments key, and processing it changes nothing on disk; a    *)
(* processed talk has an attachments key exactly when it has files.         *)
(***************************************************************************)
C9_NoFilesNoEffect == []C9_KeyIffFiles /\ [][C9_StepLeavesDisk]_vars

C9_Witness ==
    /\ \E i \in DOMAIN talks : "files" \notin DOMAIN talks[i]
    /\ \E i \in DOMAIN talks : "files" \in DOMAIN talks[i] /\ talks[i].files = <<>>
    /\ \E i \in DOMAIN talks : "attachments" \in DOMAIN talks[i]

(***************************************************************************)
(* C10.  After a successful run the file at every resolved record's         *)
(* file_path holds the body of that record's file_url, and the talks that   *)
(* have attachments have pairwise different directories.                    *)
(***************************************************************************)
C10_EveryRecordOwnsItsFile ==
    pc = "done" =>
        /\ \A i \in DOMAIN talks :
             \A k \in DOMAIN Get(talks[i], "attachments", <<>>) :
                fs.files[talks[i].attachments[k].file_path] = Body(talks[i].attachments[k].file_url)
        /\ \A i, j \in DOMAIN talks :
             (i # j /\ HasFiles(talks[i]) /\ HasFiles(talks[j]))
                => Norm(TalkPath(OutputDir, talks[i])) # Norm(TalkPath(OutputDir, talks[j]))

====
